---- MODULE Spec2Model ----
(***************************************************************************)
(* SHARE: the change-request resolver (ChangeRequest.accept / reject,      *)
(* ChangeRequestManager.create_object / update_object) and the raw-data    *)
(* store (RawDataManager.store_data) of share/models/core.py.              *)
(*                                                                         *)
(* The database rows and the Python objects the callers hold are separate  *)
(* state: reject() and the first half of accept() only touch the object,   *)
(* save() copies the object to its row.                                    *)
(***************************************************************************)
EXTENDS Integers, Sequences, FiniteSets, TLC

VARIABLES
    crs,      \* table ChangeRequest: row id -> [status, changes, object_id, version_id]
    reqs,     \* table ChangeRequirement, in id order: [change, requirement, field, version_field]
    objs,     \* table of the ShareObject entities: pk -> [doc, change, version]
    vers,     \* table of the entity versions: pk -> [object, change]
    mem,      \* the ChangeRequest instance each caller holds (NoCR: none)
    pc,       \* where each caller stands inside accept() (SpecRace)
    last,     \* the accept or reject call that returned last: [op, force, err]
    faults,   \* storage failures injected so far
    stuck,    \* the requests that were Pending when the rejection of a Pending prerequisite was stored
    called,   \* the requests handed to accept() so far, by the caller of SpecTopo
    raws,     \* table RawData: id -> [source, doc_id, sha, seen]
    queue,    \* table NormalizationQueue: the RawData ids awaiting normalization
    queued,   \* RawData id -> the number of NormalizationQueue rows ever created for it
    sp,       \* where each harvester stands inside store_data(), and its last call
    stores,   \* the store_data calls made so far
    clock,    \* the wall clock that auto_now reads
    throughs  \* table ThroughContributor: [subject, related], pks of entities

dbvars == <<crs, reqs, objs, vers>>
(* What the resolver's operations leave alone, and what store_data() and the
   normalizer leave alone. *)
storevars == <<raws, queue, queued, sp, stores, clock, throughs>>
resvars == <<crs, reqs, objs, vers, mem, pc, last, faults, stuck, called, throughs>>
vars == <<crs, reqs, objs, vers, mem, pc, last, faults, stuck, called, raws, queue, queued, sp,
          stores, clock, throughs>>

(* ------------------------------ bounds --------------------------------- *)
MaxCR == 2        \* rows of ChangeRequest in the sequential runs
MaxRows == 3      \* rows of ChangeRequest
TopoCR == 3       \* requests of a batch accepted in topological order
CycleCR == 3      \* requests of a batch whose requirements may form cycles
MaxEnt == 3       \* rows of the entity table
MaxVer == MaxEnt + 1   \* rows of the version table
MaxFaults == 1    \* injected storage failures
MaxStores == 3    \* store_data calls
MaxClock == 2     \* ticks of the wall clock
MaxThrough == 2   \* rows of ThroughContributor

Procs == {"p1", "p2"}

(* The caller of the sequential runs, who holds one instance at a time. *)
Callers == {"p1"}

(* --------------------------- ChangeStatus ------------------------------ *)
PENDING == "P"
ACCEPTED == "A"
REJECTED == "R"
ChangeStatus == {PENDING, ACCEPTED, REJECTED}

(* None, and the empty text, of a column. Primary keys start at 1. *)
None == 0

(* The columns of an entity (AbstractAgentWorkRelation): the editable ones in
   declaration order, and the version column ShareForeignKey pairs with each
   relation. *)
EditableCols == <<"creative_work_id", "agent_id", "cited_as">>
VersionCols == {"creative_work_version_id", "agent_version_id"}
AllCols == {EditableCols[i] : i \in 1..Len(EditableCols)} \cup VersionCols

share_version_field(col) ==
    IF col = "creative_work_id" THEN "creative_work_version_id" ELSE "agent_version_id"

(* The texts a draft gives cited_as. *)
Texts == {1}

(* A JSON pointer to a top-level key, and the key a pointer names. *)
Pointer(col) == "/" \o col
KeyOf(path) == CHOOSE k \in AllCols : Pointer(k) = path
IsKey(path) == \E k \in AllCols : Pointer(k) = path

(* model_class()(): every column of a fresh instance is None. *)
BlankDoc == [c \in AllCols |-> None]

(* ------------------------------ jsonpatch ------------------------------ *)
Put(doc, k, v) == [x \in (DOMAIN doc) \cup {k} |-> IF x = k THEN v ELSE doc[x]]
Drop(doc, k) == [x \in (DOMAIN doc) \ {k} |-> doc[x]]

(* One operation on a flat dict: add sets the key, replace and remove need it. *)
ApplyOp(doc, c) ==
    IF ~IsKey(c.path) THEN [err |-> TRUE, doc |-> doc]
    ELSE LET k == KeyOf(c.path) IN
         CASE c.op = "add" -> [err |-> FALSE, doc |-> Put(doc, k, c.value)]
           [] c.op = "replace" ->
                IF k \in DOMAIN doc THEN [err |-> FALSE, doc |-> Put(doc, k, c.value)]
                ELSE [err |-> TRUE, doc |-> doc]
           [] c.op = "remove" ->
                IF k \in DOMAIN doc THEN [err |-> FALSE, doc |-> Drop(doc, k)]
                ELSE [err |-> TRUE, doc |-> doc]
           [] OTHER -> [err |-> TRUE, doc |-> doc]

(* apply_patch(doc, patch, in_place=True): the operations in order; the first
   that fails raises and leaves the dict as the earlier ones made it. *)
RECURSIVE apply_patch(_, _)
apply_patch(doc, patch) ==
    IF patch = <<>> THEN [err |-> FALSE, doc |-> doc]
    ELSE LET r == ApplyOp(doc, Head(patch)) IN
         IF r.err THEN r ELSE apply_patch(r.doc, Tail(patch))

(* jsonpatch.make_patch(src, dst) of two flat dicts: a key of src missing from
   dst is removed, a key whose value differs is replaced, a key of dst missing
   from src is added. *)
RECURSIVE DiffKeys(_, _, _)
DiffKeys(src, dst, cols) ==
    IF cols = <<>> THEN <<>>
    ELSE LET k == Head(cols)
             rest == DiffKeys(src, dst, Tail(cols))
         IN  IF k \in DOMAIN src /\ k \notin DOMAIN dst
                THEN <<[op |-> "remove", path |-> Pointer(k), value |-> None]>> \o rest
             ELSE IF k \in DOMAIN src /\ k \in DOMAIN dst /\ src[k] # dst[k]
                THEN <<[op |-> "replace", path |-> Pointer(k), value |-> dst[k]]>> \o rest
             ELSE IF k \notin DOMAIN src /\ k \in DOMAIN dst
                THEN <<[op |-> "add", path |-> Pointer(k), value |-> dst[k]]>> \o rest
             ELSE rest

(* The editable columns of an instance (of nothing when the instance is None). *)
Editable(doc) == [k \in {EditableCols[i] : i \in 1..Len(EditableCols)} \cap DOMAIN doc |-> doc[k]]
NoDoc == [k \in {} |-> None]

make_patch(clean, dirty) == DiffKeys(Editable(clean), Editable(dirty), EditableCols)


(* ------------------------- rows and instances -------------------------- *)
(* A caller outside accept(); inside, `at` is the statement reached and pk,
   vpk, doc are the instance inst.save() has written. *)
Idle == [at |-> "idle", force |-> FALSE, pk |-> None, vpk |-> None, doc |-> BlankDoc]

(* No instance; an instance never saved has id None. *)
NoCR == [id |-> -1, status |-> PENDING, changes |-> <<>>, object_id |-> None,
         version_id |-> None, tpk |-> None, tdoc |-> BlankDoc]

(* The row save() writes for an instance, and the instance objects.get() builds
   from a row: the target is not cached until it is read. *)
RowOf(o) == [status |-> o.status, changes |-> o.changes,
             object_id |-> o.object_id, version_id |-> o.version_id]
FromRow(r) == [id |-> r, status |-> crs[r].status, changes |-> crs[r].changes,
               object_id |-> crs[r].object_id, version_id |-> crs[r].version_id,
               tpk |-> None, tdoc |-> BlankDoc]

(* Model.save() of a ChangeRequest instance: INSERT when it has no id yet. *)
SavedId(o) == IF o.id = None THEN Len(crs) + 1 ELSE o.id
SaveRow(o) == IF o.id = None THEN Append(crs, RowOf(o)) ELSE [crs EXCEPT ![o.id] = RowOf(o)]

(* self.depends_on.all(): the requirement rows of a request, in id order. *)
depends_on(id) == SelectSeq(reqs, LAMBDA q : q.change = id)

(* The dependency assertion as it would be if a request's requirement of
   itself counted as met. *)
Unmet_SelfIsMet(id) == \E i \in 1..Len(reqs) :
    reqs[i].change = id /\ reqs[i].requirement # id
        /\ crs[reqs[i].requirement].status # ACCEPTED

(* depends_on.exclude(requirement__status=ACCEPTED).count() != 0 *)
Unmet(id) == \E i \in 1..Len(reqs) :
    reqs[i].change = id /\ crs[reqs[i].requirement].status # ACCEPTED

(* A request made by create_object: its patch adds every editable column. *)
IsDraftChange(c) == crs[c].changes # <<>> /\ crs[c].changes[1].op = "add"

(* ShareObject.save(): the entity row and one new version row, linked to the
   change the instance carries. *)
SaveObject(pk, doc, change) ==
    LET vpk == Len(vers) + 1
        row == [doc |-> doc, change |-> change, version |-> vpk]
    IN  [objs |-> IF pk = None THEN Append(objs, row) ELSE [objs EXCEPT ![pk] = row],
         vers |-> Append(vers, [object |-> IF pk = None THEN Len(objs) + 1 ELSE pk,
                                change |-> change]),
         pk |-> IF pk = None THEN Len(objs) + 1 ELSE pk,
         vpk |-> vpk]

(* The target a GenericForeignKey yields: the cached instance, else the row
   object_id names, else None. *)
HasTarget(o) == o.tpk # None \/ o.object_id # None
TargetPk(o) == IF o.tpk # None THEN o.tpk ELSE o.object_id
TargetDoc(o) == IF o.tpk # None THEN o.tdoc ELSE objs[o.object_id].doc

Return(op, force, err) == last' = [op |-> op, force |-> force, err |-> err]

(* A harvester outside store_data(); inside, `pc` is the statement reached.
   raced: the INSERT lost to another; after_delete: the row the first get()
   found had had its marker created and deleted. *)
NoStore == [pc |-> "idle", source |-> None, doc_id |-> "", sha |-> "",
            rd |-> None, created |-> FALSE, raced |-> FALSE, err |-> FALSE,
            after_delete |-> FALSE]

(* ------------------------- ChangeRequest.accept ------------------------ *)
(* accept() as it would be with force waiving both assertions. *)
AcceptCheck_ForceWaivesAll(o, force) ==
    IF force THEN "none"
    ELSE IF o.status # PENDING THEN "InvalidState"
    ELSE IF Unmet(o.id) THEN "UnsatisfiedDependency"
    ELSE "none"

(* accept() as it would be without the assertion on its own status. *)
AcceptCheck_NoStatusAssert(o, force) ==
    IF Unmet(o.id) THEN "UnsatisfiedDependency" ELSE "none"

(* The two assertions of accept(): the instance's own status unless forced,
   then the stored status of every prerequisite. *)
AcceptCheck(o, force) ==
    IF ~(force \/ o.status = PENDING) THEN "InvalidState"
    ELSE IF Unmet(o.id) THEN "UnsatisfiedDependency"
    ELSE "none"

(* The index of the first operation of a patch with the given path, 0 if none. *)
FirstOp(changes, path) ==
    IF \E i \in 1..Len(changes) : changes[i].path = path
    THEN CHOOSE i \in 1..Len(changes) :
            /\ changes[i].path = path
            /\ \A j \in 1..(i - 1) : changes[j].path # path
    ELSE 0

(* The loop of create_object() as it would be without the appended version
   operation. *)
RECURSIVE Substitute_NoVersion(_, _)
Substitute_NoVersion(changes, rs) ==
    IF rs = <<>> THEN [err |-> FALSE, changes |-> changes]
    ELSE LET q == Head(rs)
             i == FirstOp(changes, Pointer(q.field))
         IN  IF i = 0 THEN [err |-> TRUE, changes |-> changes]
             ELSE Substitute_NoVersion(
                    [changes EXCEPT ![i].value = crs[q.requirement].object_id],
                    Tail(rs))

(* The loop of create_object() over the requirements: the prerequisite's
   stored object_id goes into the operation on the requirement's field, and a
   replace of the version field by its stored version_id is appended. *)
RECURSIVE Substitute(_, _)
Substitute(changes, rs) ==
    IF rs = <<>> THEN [err |-> FALSE, changes |-> changes]
    ELSE LET q == Head(rs)
             i == FirstOp(changes, Pointer(q.field))
         IN  IF i = 0 THEN [err |-> TRUE, changes |-> changes]
             ELSE Substitute(
                    Append([changes EXCEPT ![i].value = crs[q.requirement].object_id],
                           [op |-> "replace", path |-> Pointer(q.version_field),
                            value |-> crs[q.requirement].version_id]),
                    Tail(rs))

(* apply_change() up to target.save(): the patch applied in place to the
   target instance. What is to be saved: instance pk with columns doc, carrying
   the change the stored object carries. *)
apply_change(o1) ==
    LET pk == TargetPk(o1)
        r == apply_patch(TargetDoc(o1), o1.changes)
    IN  [err |-> IF r.err \/ DOMAIN r.doc # AllCols THEN "PatchError" ELSE "none",
         o |-> [o1 EXCEPT !.tpk = pk, !.tdoc = r.doc],
         pk |-> pk, doc |-> r.doc, change |-> objs[pk].change]

(* create_object() up to inst.save(): the substitution, then the patch applied
   to a blank instance, which carries this change. *)
create_object(o1) ==
    LET s == Substitute(o1.changes, depends_on(o1.id))
        r == apply_patch(BlankDoc, s.changes)
    IN  [err |-> IF s.err THEN "StopIteration"
                 ELSE IF r.err \/ DOMAIN r.doc # AllCols THEN "PatchError"
                 ELSE "none",
         o |-> [o1 EXCEPT !.changes = s.changes],
         pk |-> None, doc |-> r.doc, change |-> o1.id]

(* `if self.target:` *)
Prepared(o1) == IF HasTarget(o1) THEN apply_change(o1) ELSE create_object(o1)

(* The instance after inst.save(): create_object() sets target and version to
   what was written, apply_change() sets nothing. *)
AfterSave(o, created, pk, vpk, doc) ==
    IF created
    THEN [o EXCEPT !.object_id = pk, !.version_id = vpk, !.tpk = pk, !.tdoc = doc]
    ELSE o

Faults == {"none", "target.save", "self.save"}

(* accept(force) on the instance o that caller p holds from now on: the whole
   call, with the storage failing where `fault` says. *)
AcceptOn(p, o, force, fault) ==
    /\ fault # "none" => faults < MaxFaults
    /\ LET e == AcceptCheck(o, force)
           pr == Prepared([o EXCEPT !.status = ACCEPTED])
           w == SaveObject(pr.pk, pr.doc, pr.change)
           o3 == AfterSave(pr.o, pr.pk = None, w.pk, w.vpk, pr.doc)
       IN  IF e # "none" THEN
                /\ fault = "none"
                /\ Return("accept", force, e)
                /\ mem' = [mem EXCEPT ![p] = o]
                /\ UNCHANGED <<dbvars, faults>>
           ELSE IF pr.err # "none" THEN
                /\ fault = "none"
                /\ Return("accept", force, pr.err)
                /\ mem' = [mem EXCEPT ![p] = pr.o]
                /\ UNCHANGED <<dbvars, faults>>
           ELSE IF fault = "target.save" THEN
                /\ Return("accept", force, "SaveError")
                /\ mem' = [mem EXCEPT ![p] = pr.o]
                /\ faults' = faults + 1
                /\ UNCHANGED dbvars
           ELSE
                /\ pr.pk = None => Len(objs) < MaxEnt
                /\ Len(vers) < MaxVer
                /\ objs' = w.objs
                /\ vers' = w.vers
                /\ UNCHANGED reqs
                /\ IF fault = "self.save" THEN
                        /\ Return("accept", force, "SaveError")
                        /\ mem' = [mem EXCEPT ![p] = o3]
                        /\ faults' = faults + 1
                        /\ UNCHANGED crs
                   ELSE
                        /\ o3.id = None => Len(crs) < MaxRows
                        /\ Return("accept", force, "none")
                        /\ crs' = SaveRow(o3)
                        /\ mem' = [mem EXCEPT ![p] = [o3 EXCEPT !.id = SavedId(o3)]]
                        /\ UNCHANGED faults

Accept(p, force, fault) ==
    /\ pc[p].at = "idle"
    /\ mem[p].id # NoCR.id
    /\ AcceptOn(p, mem[p], force, fault)
    /\ UNCHANGED <<pc, stuck, called, storevars>>

(* accept() statement by statement, for callers that run side by side: the
   assertions and the status (lines 197-199), then the patch and the save of
   the entity (200-206, 210-222), then the save of the request (207, 223-225). *)
AcceptBegin(p, force) ==
    /\ pc[p].at = "idle"
    /\ mem[p].id # NoCR.id
    /\ LET e == AcceptCheck(mem[p], force) IN
        IF e # "none" THEN
            /\ Return("accept", force, e)
            /\ UNCHANGED <<mem, pc>>
        ELSE
            /\ mem' = [mem EXCEPT ![p].status = ACCEPTED]
            /\ pc' = [pc EXCEPT ![p] = [Idle EXCEPT !.at = "apply", !.force = force]]
            /\ UNCHANGED last
    /\ UNCHANGED <<dbvars, faults, stuck, called, storevars>>

AcceptApply(p) ==
    /\ pc[p].at = "apply"
    /\ LET pr == Prepared(mem[p])
           w == SaveObject(pr.pk, pr.doc, pr.change)
       IN  /\ mem' = [mem EXCEPT ![p] = pr.o]
           /\ IF pr.err # "none" THEN
                /\ Return("accept", pc[p].force, pr.err)
                /\ pc' = [pc EXCEPT ![p] = Idle]
                /\ UNCHANGED <<objs, vers>>
              ELSE
                /\ pr.pk = None => Len(objs) < MaxEnt
                /\ Len(vers) < MaxVer
                /\ objs' = w.objs
                /\ vers' = w.vers
                /\ pc' = [pc EXCEPT ![p] = [at |-> "self.save", force |-> pc[p].force,
                            pk |-> IF pr.pk = None THEN w.pk ELSE None,
                            vpk |-> IF pr.pk = None THEN w.vpk ELSE None,
                            doc |-> IF pr.pk = None THEN pr.doc ELSE BlankDoc]]
                /\ UNCHANGED last
    /\ UNCHANGED <<crs, reqs, faults, stuck, called, storevars>>

AcceptSaveSelf(p) ==
    /\ pc[p].at = "self.save"
    /\ LET o3 == AfterSave(mem[p], pc[p].pk # None, pc[p].pk, pc[p].vpk, pc[p].doc) IN
        /\ o3.id = None => Len(crs) < MaxRows
        /\ crs' = SaveRow(o3)
        /\ mem' = [mem EXCEPT ![p] = [o3 EXCEPT !.id = SavedId(o3)]]
    /\ Return("accept", pc[p].force, "none")
    /\ pc' = [pc EXCEPT ![p] = Idle]
    /\ UNCHANGED <<reqs, objs, vers, faults, stuck, called, storevars>>

(* ------------------------- ChangeRequest.reject ------------------------ *)
Rejected(o) == [o EXCEPT !.status = REJECTED]

Reject(p) ==
    /\ pc[p].at = "idle"
    /\ mem[p].id # NoCR.id
    /\ mem' = [mem EXCEPT ![p] = Rejected(mem[p])]
    /\ Return("reject", FALSE, "none")
    /\ UNCHANGED <<dbvars, pc, faults, stuck, called, storevars>>

(* ----------------- the caller's save() and objects.get() --------------- *)
Save(p) ==
    /\ pc[p].at = "idle"
    /\ mem[p].id # NoCR.id
    /\ mem[p].id = None => Len(crs) < MaxRows
    /\ crs' = SaveRow(mem[p])
    /\ mem' = [mem EXCEPT ![p].id = SavedId(mem[p])]
    /\ stuck' = IF mem[p].id \in 1..Len(crs) /\ mem[p].status = REJECTED
                    /\ crs[mem[p].id].status = PENDING
                 THEN stuck \cup {reqs[i].change : i \in {j \in 1..Len(reqs) :
                        reqs[j].requirement = mem[p].id
                        /\ crs[reqs[j].change].status = PENDING}}
                 ELSE stuck
    /\ UNCHANGED <<reqs, objs, vers, pc, last, faults, called, storevars>>

Load(p, r) ==
    /\ pc[p].at = "idle"
    /\ r \in 1..Len(crs)
    /\ mem' = [mem EXCEPT ![p] = FromRow(r)]
    /\ UNCHANGED <<dbvars, pc, last, faults, stuck, called, storevars>>


(* ------------------- ChangeRequestManager.create_object ---------------- *)
(* What a relation of a draft refers to: nothing (None), a saved entity (its
   pk, positive) or the draft of an earlier request (minus the request's id),
   which has no pk. *)
DraftRefs == {None} \cup (1..Len(objs))
                \cup {-c : c \in {d \in 1..Len(crs) : IsDraftChange(d)}}

(* The column of a relation: the pk of a saved object, None for an unsaved one. *)
RelValue(ref) == IF ref > 0 THEN ref ELSE None

DraftDoc(work, agent, text) ==
    [BlankDoc EXCEPT !["creative_work_id"] = RelValue(work),
                     !["agent_id"] = RelValue(agent),
                     !["cited_as"] = text]

(* from_field() as it would be with the relation's own column for the version
   column. *)
from_field_NoVersionColumn(change, col, ref) ==
    [change |-> change, field |-> col, version_field |-> col, requirement |-> -ref]

(* ChangeRequirementManager.from_field *)
from_field(change, col, ref) ==
    [change |-> change, field |-> col, version_field |-> share_version_field(col),
     requirement |-> -ref]

(* The requirements of a new request: one for each editable relation that
   holds an object without a pk. *)
NewRequirements(change, work, agent) ==
    (IF work < 0 THEN <<from_field(change, "creative_work_id", work)>> ELSE <<>>)
    \o (IF agent < 0 THEN <<from_field(change, "agent_id", agent)>> ELSE <<>>)

ProposeCreate(p, work, agent, text) ==
    /\ pc[p].at = "idle"
    /\ LET id == Len(crs) + 1
           change == [id |-> id, status |-> PENDING,
                      changes |-> make_patch(NoDoc, DraftDoc(work, agent, text)),
                      object_id |-> None, version_id |-> None,
                      tpk |-> None, tdoc |-> BlankDoc]
       IN  /\ crs' = Append(crs, RowOf(change))
           /\ reqs' = reqs \o NewRequirements(id, work, agent)
           /\ mem' = [mem EXCEPT ![p] = change]
    /\ UNCHANGED <<objs, vers, pc, last, faults, stuck, called, storevars>>

(* ------------------- ChangeRequestManager.update_object ---------------- *)
(* The request is built around the stored copy of the object and returned; it
   is not saved. *)
ProposeUpdateTo(p, pk, updated) ==
    /\ pc[p].at = "idle"
    /\ pk \in 1..Len(objs)
    /\ LET clean == objs[pk]
       IN  mem' = [mem EXCEPT ![p] =
                    [id |-> None, status |-> PENDING,
                     changes |-> make_patch(clean.doc, updated),
                     object_id |-> pk, version_id |-> clean.version,
                     tpk |-> pk, tdoc |-> clean.doc]]
    /\ UNCHANGED <<dbvars, pc, last, faults, stuck, called, storevars>>

(* update_object() of the stored entity with another cited_as. *)
ProposeUpdate(p, pk, text) ==
    ProposeUpdateTo(p, pk, [objs[pk].doc EXCEPT !["cited_as"] = text])

(* --------------------------- the resolver ------------------------------ *)
StoreInit ==
    /\ raws = <<>>
    /\ queue = {}
    /\ queued = <<>>
    /\ sp = [h \in Procs |-> NoStore]
    /\ stores = 0
    /\ clock = 0

Init ==
    /\ crs = <<>>
    /\ reqs = <<>>
    /\ objs = <<>>
    /\ vers = <<>>
    /\ mem = [p \in Procs |-> NoCR]
    /\ pc = [p \in Procs |-> Idle]
    /\ last = [op |-> "none", force |-> FALSE, err |-> "none"]
    /\ faults = 0
    /\ stuck = {}
    /\ called = {}
    /\ StoreInit
    /\ throughs = <<>>

Next ==
    \/ \E p \in Callers, work \in DraftRefs, agent \in DraftRefs, text \in Texts :
            Len(crs) < MaxCR /\ ProposeCreate(p, work, agent, text)
    \/ \E p \in Callers, pk \in 1..Len(objs), text \in {None} \cup Texts :
            ProposeUpdate(p, pk, text)
    \/ \E p \in Callers, r \in 1..Len(crs) : Load(p, r)
    \/ \E p \in Callers, force \in BOOLEAN, fault \in Faults :
            Accept(p, force, fault) /\ Len(crs') <= MaxCR
    \/ \E p \in Callers : Reject(p)
    \/ \E p \in Callers : Save(p) /\ Len(crs') <= MaxCR

Spec == Init /\ [][Next]_vars


(* ======================= the resolver, call by call ==================== *)
AcceptCall(p) == \E force \in BOOLEAN, fault \in Faults : Accept(p, force, fault)

(* C1 as stated: accept() of a request with a prerequisite whose stored status
   is not Accepted fails with the unsatisfied-dependency error, forced or not,
   and changes neither the tables nor the instance. *)
C1_AlwaysUnsatisfied ==
    [][\A p \in Callers, force \in BOOLEAN, fault \in Faults :
        (Accept(p, force, fault) /\ Unmet(mem[p].id)) =>
            /\ last'.err = "UnsatisfiedDependency"
            /\ UNCHANGED <<crs, reqs, objs, vers, mem>>]_vars

(* C1 amended: accept() of a request with a prerequisite whose stored status
   is not Accepted always fails and changes neither the tables nor the
   instance; the error is the unsatisfied-dependency error when the call is
   forced or the instance is Pending, and the invalid-state error otherwise. *)
C1_UnmetFails ==
    [][\A p \in Callers, force \in BOOLEAN, fault \in Faults :
        (Accept(p, force, fault) /\ Unmet(mem[p].id)) =>
            /\ last'.err = IF force \/ mem[p].status = PENDING
                           THEN "UnsatisfiedDependency" ELSE "InvalidState"
            /\ UNCHANGED <<crs, reqs, objs, vers, mem>>]_vars

(* A forced accept() of a Rejected request with an unmet prerequisite has just
   failed on the prerequisite. *)
C1_Witness ==
    /\ last = [op |-> "accept", force |-> TRUE, err |-> "UnsatisfiedDependency"]
    /\ \E p \in Callers : mem[p].status = REJECTED /\ Unmet(mem[p].id)

(* C2: once the status of a request is Accepted or Rejected, no accept() or
   reject() call on it changes the status, on the instance or in its row. *)
C2_Terminal ==
    [][\A p \in Callers :
        (mem[p].status \in {ACCEPTED, REJECTED} /\ (AcceptCall(p) \/ Reject(p))) =>
            /\ mem'[p].status = mem[p].status
            /\ mem[p].id \in 1..Len(crs) => crs'[mem[p].id].status = crs[mem[p].id].status]_vars

(* C4: when accept() of a creation request fails after the dependency check,
   the request is as it was (status, patch), its row too, and there is no new
   entity and no new version. *)
C4_FailedAcceptRollsBack ==
    [][\A p \in Callers, force \in BOOLEAN, fault \in Faults :
        (/\ Accept(p, force, fault)
         /\ ~HasTarget(mem[p])
         /\ AcceptCheck(mem[p], force) = "none"
         /\ last'.err # "none") =>
            /\ mem'[p].status = mem[p].status
            /\ mem'[p].changes = mem[p].changes
            /\ UNCHANGED <<crs, objs, vers>>]_vars

(* C8: reject() succeeds on a Pending request only, which becomes Rejected; on
   any other it fails with the invalid-state error and leaves the status. *)
C8_RejectNeedsPending ==
    [][\A p \in Callers :
        Reject(p) =>
            IF mem[p].status = PENDING
            THEN mem'[p].status = REJECTED /\ last'.err = "none"
            ELSE mem'[p].status = mem[p].status /\ last'.err = "InvalidState"]_vars

(* C9: accept() without force of a request that is not Pending fails with the
   invalid-state error and changes nothing: no row of any table, and not the
   instance (status, patch, target). *)
C9_NotPendingFails ==
    [][\A p \in Callers, fault \in Faults :
        (Accept(p, FALSE, fault) /\ mem[p].status # PENDING) =>
            /\ last'.err = "InvalidState"
            /\ UNCHANGED <<crs, reqs, objs, vers, mem>>]_vars

(* accept() without force has just failed on an Accepted request that has a
   target, a version and a row. *)
C9_Witness ==
    /\ last = [op |-> "accept", force |-> FALSE, err |-> "InvalidState"]
    /\ \E p \in Callers :
        /\ mem[p].status = ACCEPTED
        /\ mem[p].id \in 1..Len(crs)
        /\ mem[p].object_id # None

(* C11: create_object() of a draft appends one Pending row without target or
   version, and for each of the two relations of the draft one requirement
   row when the relation holds a draft without a pk (change: the new request,
   requirement: the request of that draft, field: the relation's column,
   version_field: its version column) and none when the relation is empty or
   holds a saved entity. *)
C11_ProposeCreate ==
    [][\A p \in Callers, work \in DraftRefs, agent \in DraftRefs, text \in Texts :
        (Len(crs') # Len(crs) /\ ProposeCreate(p, work, agent, text)) =>
            LET id == Len(crs) + 1
                new == SubSeq(reqs', Len(reqs) + 1, Len(reqs'))
                For(col) == {i \in 1..Len(new) : new[i].field = col}
                Right(col, vcol, ref) ==
                    IF ref < 0
                    THEN /\ Cardinality(For(col)) = 1
                         /\ \A i \in For(col) : new[i] = [change |-> id, requirement |-> -ref,
                                                           field |-> col, version_field |-> vcol]
                    ELSE For(col) = {}
            IN  /\ Len(crs') = id
                /\ SubSeq(crs', 1, Len(crs)) = crs
                /\ crs'[id].status = PENDING
                /\ crs'[id].object_id = None /\ crs'[id].version_id = None
                /\ SubSeq(reqs', 1, Len(reqs)) = reqs
                /\ Right("creative_work_id", "creative_work_version_id", work)
                /\ Right("agent_id", "agent_version_id", agent)
                /\ \A i \in 1..Len(new) : new[i].field \in {"creative_work_id", "agent_id"}]_vars

(* A request made from a draft whose work is a saved entity and whose agent is
   the draft of an earlier request: it has the one requirement, on the agent. *)
C11_Witness ==
    \E c \in 1..Len(crs) :
        /\ IsDraftChange(c) /\ crs[c].status = PENDING
        /\ crs[c].changes[1].value > 0
        /\ Len(depends_on(c)) = 1
        /\ depends_on(c)[1].field = "agent_id"
        /\ depends_on(c)[1].version_field = "agent_version_id"

(* C12: when update_object() returns, the ChangeRequest table has one more
   row: Pending, with the entity for target, the entity's stored version for
   version, and the patch from the stored entity to the modified one. *)
C12_UpdatePersisted ==
    [][\A p \in Callers, pk \in 1..Len(objs), text \in {None} \cup Texts :
        ProposeUpdate(p, pk, text) =>
            /\ Len(crs') = Len(crs) + 1
            /\ crs'[Len(crs')] =
                    [status |-> PENDING,
                     changes |-> make_patch(objs[pk].doc, [objs[pk].doc EXCEPT !["cited_as"] = text]),
                     object_id |-> pk, version_id |-> objs[pk].version]]_vars

(* C13: after accept() of a Pending request made by update_object() has
   returned, the request is Accepted, on the instance and in its row, and its
   version is the version row this call has added. *)
C13_UpdateRecordsNewVersion ==
    [][\A p \in Callers, force \in BOOLEAN :
        (/\ last'.err = "none"
         /\ mem[p].status = PENDING /\ HasTarget(mem[p])
         /\ Accept(p, force, "none")) =>
            /\ mem'[p].status = ACCEPTED
            /\ crs'[mem'[p].id].status = ACCEPTED
            /\ Len(vers') = Len(vers) + 1
            /\ mem'[p].version_id = Len(vers')
            /\ crs'[mem'[p].id].version_id = Len(vers')]_vars

(* C14: every accept() that returns without error, creating or updating, adds
   exactly one version row, and that row carries the request accept() was
   called on. *)
C14_OneVersionPerAccept ==
    [][\A p \in Callers, force \in BOOLEAN :
        (last'.err = "none" /\ Accept(p, force, "none")) =>
            /\ Len(vers') = Len(vers) + 1
            /\ SubSeq(vers', 1, Len(vers)) = vers
            /\ vers'[Len(vers')].change = mem'[p].id]_vars

(* C19: every request whose stored status is Accepted has all its
   prerequisites stored as Accepted. *)
C19_AcceptedHasAcceptedPrerequisites ==
    \A i \in 1..Len(reqs) :
        crs[reqs[i].change].status = ACCEPTED => crs[reqs[i].requirement].status = ACCEPTED

(* C10: a request that was Pending when the rejection of one of its
   prerequisites, itself Pending, was stored is never Accepted afterwards. *)
C10_StuckPending == \A d \in stuck : crs[d].status # ACCEPTED


(* =============== a batch accepted in topological order ================= *)
Prerequisites(r) == {reqs[i].requirement : i \in {j \in 1..Len(reqs) : reqs[j].change = r}}

TopoPropose ==
    \E work \in DraftRefs, agent \in DraftRefs, text \in Texts :
        Len(crs) < TopoCR /\ ProposeCreate("p1", work, agent, text)

(* ChangeRequest.objects.get(pk=r).accept(), once per request and after the
   request's prerequisites have had their call. *)
TopoAccept(r) ==
    /\ r \notin called
    /\ Prerequisites(r) \subseteq called
    /\ AcceptOn("p1", FromRow(r), FALSE, "none")
    /\ called' = called \cup {r}
    /\ UNCHANGED <<pc, stuck, storevars>>

TopoNext ==
    \/ TopoPropose
    \/ \E r \in 1..Len(crs) : TopoAccept(r)

SpecTopo == Init /\ [][TopoNext]_vars

(* C3: every request of the batch that accept() was called on, in topological
   order, is Accepted, and on its entity each requirement's field holds the
   pk of the entity the prerequisite created and the paired version field the
   pk of that entity's version, as stored on the prerequisite's row. *)
C3_TopologicalOrder ==
    \A r \in called :
        /\ crs[r].status = ACCEPTED
        /\ crs[r].object_id \in 1..Len(objs)
        /\ objs[crs[r].object_id].change = r
        /\ \A i \in 1..Len(reqs) :
            reqs[i].change = r =>
                LET pre == crs[reqs[i].requirement]
                    doc == objs[crs[r].object_id].doc
                IN  /\ pre.object_id \in 1..Len(objs)
                    /\ pre.version_id \in 1..Len(vers)
                    /\ objs[pre.object_id].change = reqs[i].requirement
                    /\ vers[pre.version_id].object = pre.object_id
                    /\ doc[reqs[i].field] = pre.object_id
                    /\ doc[reqs[i].version_field] = pre.version_id

(* A chain of three requests, the last of which also depends on the first,
   has been accepted. *)
C3_Witness ==
    /\ called = 1..TopoCR
    /\ Prerequisites(2) = {1}
    /\ Prerequisites(3) = {1, 2}


(* ================== two callers running side by side =================== *)
(* The batch the callers work on: a request with no prerequisite and a second
   one whose relations may refer to the draft of the first, as two
   create_object calls leave them. *)
Batch(work, agent) ==
    [crs |-> <<RowOf([NoCR EXCEPT !.changes = make_patch(NoDoc, DraftDoc(None, None, 1))]),
               RowOf([NoCR EXCEPT !.changes = make_patch(NoDoc, DraftDoc(work, agent, 1))])>>,
     reqs |-> NewRequirements(2, work, agent)]

RaceInit ==
    /\ \E work \in {None, -1}, agent \in {None, -1} :
        /\ crs = Batch(work, agent).crs
        /\ reqs = Batch(work, agent).reqs
    /\ objs = <<>>
    /\ vers = <<>>
    /\ mem = [p \in Procs |-> NoCR]
    /\ pc = [p \in Procs |-> Idle]
    /\ last = [op |-> "none", force |-> FALSE, err |-> "none"]
    /\ faults = 0
    /\ stuck = {}
    /\ called = {}
    /\ StoreInit
    /\ throughs = <<>>

RaceNext ==
    \/ \E p \in Procs, r \in 1..Len(crs) : Load(p, r)
    \/ \E p \in Procs : AcceptBegin(p, FALSE)
    \/ \E p \in Procs : AcceptApply(p)
    \/ \E p \in Procs : AcceptSaveSelf(p)
    \/ \E p \in Procs : Reject(p)
    \/ \E p \in Procs : Save(p)

SpecRace == RaceInit /\ [][RaceNext]_vars

(* C20: the entity table never holds two entities made for the same creation
   request. *)
C20_OneEntityPerRequest ==
    \A e, f \in 1..Len(objs) : objs[e].change = objs[f].change => e = f

(* The stored status of some prerequisite of the request is Rejected. *)
RejectedPrerequisite(id) == \E i \in 1..Len(reqs) :
    reqs[i].change = id /\ crs[reqs[i].requirement].status = REJECTED

(* C7: whenever accept() writes (the entity, then the request as Accepted),
   no prerequisite of the request is Rejected in the store. *)
C7_CheckedAtWrite ==
    [][\A p \in Procs :
        (AcceptApply(p) \/ AcceptSaveSelf(p)) /\ <<crs, objs>>' # <<crs, objs>>
            => ~RejectedPrerequisite(mem[p].id)]_vars

(* ============================ the raw-data store ======================= *)
Sources == {1}
DocIds == {"doc1"}
Datas == {"hello", "world"}

(* sha256(data).hexdigest(), by its first eight digits. *)
sha256(data) == IF data = "hello" THEN "2cf24dba" ELSE "486ea462"

(* The rows a lookup on unique_together's columns finds. *)
Lookup(source, doc_id, sha) ==
    {i \in 1..Len(raws) :
        raws[i].source = source /\ raws[i].doc_id = doc_id /\ raws[i].sha = sha}

(* store_data(): the hash and the get() of get_or_create. *)
StoreGet(h, doc_id, data, source) ==
    /\ sp[h].pc = "idle"
    /\ stores < MaxStores
    /\ stores' = stores + 1
    /\ LET found == Lookup(source, doc_id, sha256(data))
           call == [NoStore EXCEPT !.source = source, !.doc_id = doc_id,
                                   !.sha = sha256(data)]
       IN  sp' = [sp EXCEPT ![h] =
                IF found # {}
                THEN LET rd == CHOOSE i \in found : TRUE IN
                     [call EXCEPT !.pc = "if created", !.rd = rd,
                        !.after_delete = (queued[rd] > 0 /\ rd \notin queue)]
                ELSE [call EXCEPT !.pc = "create"]]
    /\ UNCHANGED <<raws, queue, queued, clock, resvars>>

(* A plain create(), which lets the uniqueness violation out. *)
GetOrCreate_Raises(call, found) ==
    IF found # {}
    THEN [call EXCEPT !.pc = "idle", !.err = TRUE]
    ELSE [call EXCEPT !.pc = "if created", !.rd = Len(raws) + 1, !.created = TRUE]

(* The create() of get_or_create: the INSERT, or on the uniqueness violation
   the second get(), which answers created = False. *)
GetOrCreate(call, found) ==
    IF found # {}
    THEN [call EXCEPT !.pc = "if created", !.rd = CHOOSE i \in found : TRUE,
                      !.created = FALSE, !.raced = TRUE]
    ELSE [call EXCEPT !.pc = "if created", !.rd = Len(raws) + 1, !.created = TRUE]

StoreCreate(h) ==
    /\ sp[h].pc = "create"
    /\ LET found == Lookup(sp[h].source, sp[h].doc_id, sp[h].sha) IN
        /\ sp' = [sp EXCEPT ![h] = GetOrCreate(sp[h], found)]
        /\ raws' = IF found # {} THEN raws
                   ELSE Append(raws, [source |-> sp[h].source, doc_id |-> sp[h].doc_id,
                                      sha |-> sp[h].sha, harvested |-> clock,
                                      seen |-> clock])
        /\ queued' = IF found # {} THEN queued ELSE Append(queued, 0)
    /\ UNCHANGED <<queue, clock, stores, resvars>>

(* store_data() as it would be queueing every document it is handed. *)
Enqueues_Always(call) == TRUE

(* `if created:` NormalizationQueue(data=rd).save() *)
Enqueues(call) == call.created

StoreQueue(h) ==
    /\ sp[h].pc = "if created"
    /\ sp' = [sp EXCEPT ![h].pc = "rd.save"]
    /\ IF Enqueues(sp[h])
       THEN /\ queue' = queue \cup {sp[h].rd}
            /\ queued' = [queued EXCEPT ![sp[h].rd] = @ + 1]
       ELSE UNCHANGED <<queue, queued>>
    /\ UNCHANGED <<raws, clock, stores, resvars>>

(* rd.save(), which sets date_seen to now, and the return. *)
StoreSave(h) ==
    /\ sp[h].pc = "rd.save"
    /\ raws' = [raws EXCEPT ![sp[h].rd].seen = clock]
    /\ sp' = [sp EXCEPT ![h].pc = "idle"]
    /\ UNCHANGED <<queue, queued, clock, stores, resvars>>

(* The normalizer deletes the marker of a document it has processed. *)
Normalize(rd) ==
    /\ rd \in queue
    /\ queue' = queue \ {rd}
    /\ UNCHANGED <<raws, queued, sp, clock, stores, resvars>>

Tick ==
    /\ clock < MaxClock
    /\ clock' = clock + 1
    /\ UNCHANGED <<raws, queue, queued, sp, stores, resvars>>

StoreNext ==
    \/ \E h \in Procs, doc_id \in DocIds, data \in Datas, source \in Sources :
            StoreGet(h, doc_id, data, source)
    \/ \E h \in Procs : StoreCreate(h)
    \/ \E h \in Procs : StoreQueue(h)
    \/ \E h \in Procs : StoreSave(h)
    \/ \E rd \in queue : Normalize(rd)
    \/ Tick

SpecStore == Init /\ [][StoreNext]_vars


AllIdle == \A h \in Procs : sp[h].pc = "idle"
Returned(h) == sp[h].pc = "idle" /\ sp[h].rd # None

(* C5: the stored rows are unique on (source, doc_id, sha256); a call that has
   returned answers the one row of its triple; no row ever gets a second
   marker, deleted or not, and once every call has returned each row has had
   exactly one; date_seen is never before date_harvested. *)
C5_OneRowOneMarker ==
    /\ \A i, j \in 1..Len(raws) :
        (raws[i].source = raws[j].source /\ raws[i].doc_id = raws[j].doc_id
            /\ raws[i].sha = raws[j].sha) => i = j
    /\ \A h \in Procs :
        Returned(h) => Lookup(sp[h].source, sp[h].doc_id, sp[h].sha) = {sp[h].rd}
    /\ \A i \in 1..Len(raws) :
        /\ queued[i] <= 1
        /\ AllIdle => queued[i] = 1
        /\ raws[i].seen >= raws[i].harvested

(* A store of bytes seen before has returned the old row, later than the row
   was made and after the row's marker was deleted, and the row has no marker. *)
C5_Witness ==
    /\ AllIdle
    /\ \E h \in Procs :
        /\ Returned(h)
        /\ ~sp[h].created
        /\ sp[h].after_delete
        /\ sp[h].rd \notin queue
        /\ raws[sp[h].rd].seen > raws[sp[h].rd].harvested

(* C6: no store call ends in an error; two calls with the same source,
   document id and bytes that have both returned answer the same row, which is
   the only row of the triple and, no call being under way, has had exactly
   one marker. *)
C6_ConcurrentStore ==
    /\ \A h \in Procs : ~sp[h].err
    /\ \A g, h \in Procs :
        (/\ sp[g].pc = "idle" /\ sp[h].pc = "idle"
         /\ sp[g].sha # "" /\ sp[g].sha = sp[h].sha
         /\ sp[g].doc_id = sp[h].doc_id /\ sp[g].source = sp[h].source) =>
            /\ sp[g].rd # None
            /\ sp[g].rd = sp[h].rd
            /\ Lookup(sp[g].source, sp[g].doc_id, sp[g].sha) = {sp[g].rd}
            /\ queued[sp[g].rd] <= 1
            /\ AllIdle => queued[sp[g].rd] = 1

(* Both calls missed in the first get(); one inserted, the other lost the
   INSERT and answered the winner's row. *)
C6_Witness ==
    \E g, h \in Procs :
        /\ Returned(g) /\ Returned(h)
        /\ sp[g].created
        /\ sp[h].raced /\ ~sp[h].created
        /\ sp[g].rd = sp[h].rd


(* ================= updates of one entity by two callers ================ *)
(* The pks of the agents a relation may name. *)
Agents == {1}

(* The entity the callers update, as create_object() and accept() of request
   1 have left it. *)
Entity0 == DraftDoc(None, None, 1)

UpdateInit ==
    /\ crs = <<[status |-> ACCEPTED, changes |-> make_patch(NoDoc, Entity0),
                object_id |-> 1, version_id |-> 1]>>
    /\ reqs = <<>>
    /\ objs = <<[doc |-> Entity0, change |-> 1, version |-> 1]>>
    /\ vers = <<[object |-> 1, change |-> 1]>>
    /\ mem = [p \in Procs |-> NoCR]
    /\ pc = [p \in Procs |-> Idle]
    /\ last = [op |-> "none", force |-> FALSE, err |-> "none"]
    /\ faults = 0
    /\ stuck = {}
    /\ called = {}
    /\ StoreInit
    /\ throughs = <<>>

UpdateNext ==
    \/ \E p \in Procs, pk \in 1..Len(objs), agent \in {None} \cup Agents,
          text \in {None} \cup Texts :
            ProposeUpdateTo(p, pk, [objs[pk].doc EXCEPT !["agent_id"] = agent,
                                                       !["cited_as"] = text])
    \/ \E p \in Procs, r \in 1..Len(crs) : Load(p, r)
    \/ \E p \in Procs : Accept(p, FALSE, "none")
    \/ \E p \in Procs : Save(p)

SpecUpdate == UpdateInit /\ [][UpdateNext]_vars

(* C15: after accept() of a Pending request made by update_object() has
   returned, each editable column of the stored entity that the patch names
   holds the value the patch gives it, and each editable column the patch does
   not name holds what the stored entity held before the call. *)
C15_UpdateRoundTrip ==
    [][\A p \in Procs :
        (/\ last'.err = "none"
         /\ mem[p].status = PENDING /\ HasTarget(mem[p])
         /\ Accept(p, FALSE, "none")) =>
            LET pk == TargetPk(mem[p])
                Named(col) == FirstOp(mem[p].changes, Pointer(col))
            IN  \A i \in 1..Len(EditableCols) :
                    LET col == EditableCols[i] IN
                    IF Named(col) # 0
                    THEN objs'[pk].doc[col] = mem[p].changes[Named(col)].value
                    ELSE objs'[pk].doc[col] = objs[pk].doc[col]]_vars


(* ============== the raw-data store, with calls cut short =============== *)
(* store_data() ends between its two writes: NormalizationQueue's save()
   raises, or the harvester dies, after get_or_create() has inserted and
   committed the row. *)
StoreInterrupt(h) ==
    /\ sp[h].pc = "if created"
    /\ sp[h].created
    /\ sp' = [sp EXCEPT ![h] = [sp[h] EXCEPT !.pc = "idle", !.err = TRUE]]
    /\ UNCHANGED <<raws, queue, queued, clock, stores, resvars>>

StoreCrashNext ==
    \/ StoreNext
    \/ \E h \in Procs : StoreInterrupt(h)

SpecStoreCrash == Init /\ [][StoreCrashNext]_vars

(* C16: every row of RawData has had its marker created, unless the call that
   inserted the row is still under way between the INSERT and the marker. *)
C16_RowHasHadMarker ==
    \A i \in 1..Len(raws) :
        \/ queued[i] >= 1
        \/ \E h \in Procs : sp[h].pc = "if created" /\ sp[h].created /\ sp[h].rd = i


(* =============== requirements that form cycles among requests =========== *)
(* A batch of Pending creation requests, each requiring at most one request
   of the batch (possibly itself) for its agent. create_object() makes the
   requirement of a request on itself when a draft refers to itself (the draft
   carries its change before its relations are looked at); the longer cycles
   take ChangeRequirement rows saved by the caller. needs[c] is the request c
   requires, None for none. *)
CycleBatch(needs) ==
    [crs |-> [c \in 1..CycleCR |->
                RowOf([NoCR EXCEPT !.changes = make_patch(NoDoc, DraftDoc(None, None, 1))])],
     reqs |-> LET RECURSIVE Rows(_)
                  Rows(c) == IF c > CycleCR THEN <<>>
                             ELSE (IF needs[c] = None THEN <<>>
                                   ELSE <<from_field(c, "agent_id", -needs[c])>>) \o Rows(c + 1)
              IN  Rows(1)]

CycleInit ==
    /\ \E needs \in [1..CycleCR -> {None} \cup (1..CycleCR)] :
        /\ crs = CycleBatch(needs).crs
        /\ reqs = CycleBatch(needs).reqs
    /\ objs = <<>>
    /\ vers = <<>>
    /\ mem = [p \in Procs |-> NoCR]
    /\ pc = [p \in Procs |-> Idle]
    /\ last = [op |-> "none", force |-> FALSE, err |-> "none"]
    /\ faults = 0
    /\ stuck = {}
    /\ called = {}
    /\ StoreInit
    /\ throughs = <<>>

CycleNext ==
    \/ \E p \in Callers, r \in 1..Len(crs) : Load(p, r)
    \/ \E p \in Callers, force \in BOOLEAN : Accept(p, force, "none")
    \/ \E p \in Callers : Reject(p)
    \/ \E p \in Callers : Save(p)

SpecCycle == CycleInit /\ [][CycleNext]_vars

(* Request b is reached from request a along at most n requirement rows, one
   at least. *)
RECURSIVE Requires(_, _, _)
Requires(a, b, n) ==
    /\ n > 0
    /\ \E i \in 1..Len(reqs) :
        /\ reqs[i].change = a
        /\ reqs[i].requirement = b \/ Requires(reqs[i].requirement, b, n - 1)

OnCycle(c) == Requires(c, c, Len(crs))

(* C17: a request on a cycle of requirements is never Accepted, in its row or
   on an instance a caller holds, and no entity carries it. *)
C17_CycleNeverAccepted ==
    \A c \in 1..Len(crs) :
        OnCycle(c) =>
            /\ crs[c].status # ACCEPTED
            /\ \A p \in Procs : mem[p].id = c => mem[p].status # ACCEPTED
            /\ \A e \in 1..Len(objs) : objs[e].change # c

(* A forced accept() of a request that requires itself has just failed on the
   dependency, another request of the batch having been accepted. *)
C17_Witness ==
    /\ last = [op |-> "accept", force |-> TRUE, err |-> "UnsatisfiedDependency"]
    /\ \E p \in Callers :
        /\ mem[p].id \in 1..Len(crs)
        /\ Requires(mem[p].id, mem[p].id, 1)
    /\ \E c \in 1..Len(crs) : crs[c].status = ACCEPTED


(* ========================= ThroughContributor ========================== *)
(* The pks of the works and of the agents the two relations name. *)
ThroughWorks == {1, 2}
ThroughAgents == {1, 2}

(* ThroughContributor.clean(), on the stored rows of its two relations. *)
clean(subject, related) ==
    IF objs[subject].doc["creative_work_id"] # objs[related].doc["creative_work_id"]
        THEN "ValidationError"
    ELSE IF objs[subject].doc["agent_id"] = objs[related].doc["agent_id"]
        THEN "ValidationError"
    ELSE "none"

(* ThroughContributor(subject=..., related=...).save(): clean(), then the row
   (the version rows of ThroughContributor are left out). *)
ThroughSave(subject, related) ==
    /\ Len(throughs) < MaxThrough
    /\ Return("save", FALSE, clean(subject, related))
    /\ throughs' = IF clean(subject, related) = "none"
                    THEN Append(throughs, [subject |-> subject, related |-> related])
                    ELSE throughs
    /\ UNCHANGED <<dbvars, mem, pc, faults, stuck, called, raws, queue, queued, sp, stores, clock>>

(* Two relations, as create_object() and accept() of requests 1 and 2 have
   left them. *)
Relation(c, work, agent) ==
    [crs |-> [status |-> ACCEPTED, changes |-> make_patch(NoDoc, DraftDoc(work, agent, 1)),
              object_id |-> c, version_id |-> c],
     objs |-> [doc |-> DraftDoc(work, agent, 1), change |-> c, version |-> c],
     vers |-> [object |-> c, change |-> c]]

ThroughInit ==
    /\ \E w1 \in ThroughWorks, a1 \in ThroughAgents, w2 \in ThroughWorks, a2 \in ThroughAgents :
        /\ crs = <<Relation(1, w1, a1).crs, Relation(2, w2, a2).crs>>
        /\ objs = <<Relation(1, w1, a1).objs, Relation(2, w2, a2).objs>>
        /\ vers = <<Relation(1, w1, a1).vers, Relation(2, w2, a2).vers>>
    /\ reqs = <<>>
    /\ mem = [p \in Procs |-> NoCR]
    /\ pc = [p \in Procs |-> Idle]
    /\ last = [op |-> "none", force |-> FALSE, err |-> "none"]
    /\ faults = 0
    /\ stuck = {}
    /\ called = {}
    /\ StoreInit
    /\ throughs = <<>>

ThroughNext ==
    \/ \E subject \in 1..Len(objs), related \in 1..Len(objs) : ThroughSave(subject, related)
    \/ \E p \in Callers, pk \in 1..Len(objs), work \in ThroughWorks, agent \in ThroughAgents :
            ProposeUpdateTo(p, pk, [objs[pk].doc EXCEPT !["creative_work_id"] = work,
                                                       !["agent_id"] = agent])
    \/ \E p \in Callers : Accept(p, FALSE, "none")

SpecThrough == ThroughInit /\ [][ThroughNext]_vars

(* C18: the two relations of every stored ThroughContributor name the same
   work and different agents. *)
C18_ThroughValid ==
    \A t \in 1..Len(throughs) : clean(throughs[t].subject, throughs[t].related) = "none"

====
